---- MODULE Spec2Model ----
(***************************************************************************)
(* A model of altiumate (src/altiumate/main.py, src/altiumate/config.py):  *)
(* the executable locator, the launch-and-synchronize engine of "run",     *)
(* the wrapper procedure RunFromAltiumate that render_constants emits, and *)
(* the documentation patcher.                                              *)
(*                                                                         *)
(* Text is modelled as sequences of one-character strings.  An optional    *)
(* value is None (<<>>) or Some(v) (<<v>>).  Times are in hundredths of a  *)
(* second; the clock advances by at most Step at a time, the instructions  *)
(* of the engine take no time and time.sleep(0.3) takes exactly 0.3 s.     *)
(* The file system is a map from a path to a file and every operation on   *)
(* it is atomic.  A file that the application holds open for writing can   *)
(* be read and cannot be deleted: unlink raises PermissionError (Windows). *)
(***************************************************************************)
EXTENDS Integers, Sequences, FiniteSets, TLC

VARIABLES
  now,        \* time.time() since the latest launch, in hundredths of a second
  artifact,   \* the status artifact AD_return_file, and its history
  payload,    \* AD_scripting/altiumate.pas: None or Some(rendered payload)
  eng,        \* the run invocation in progress (_handle_run)
  app,        \* the target application and the script it is executing
  runs,       \* number of run invocations started so far
  loc,        \* a call of get_altium_path and its environment
  pat,        \* a call of update_readme and the files it works on
  prj,        \* a call of parse_prjpcb_params and the file it reads
  cli,        \* an execution of the command line: main and its exit status
  pas         \* a call of render_constants and the payload it writes

vars == <<now, artifact, payload, eng, app, runs, loc, pat, prj, cli, pas>>

None == <<>>

Some(v) == <<v>>

IsSome(o) == o # <<>>

Val(o) == o[1]

----------------------------------------------------------------------------
(* Bounds of the model.                                                    *)

\* installed builds enumerated from the registry
MaxBuilds == 2

\* the clock advances by at most Step hundredths of a second at a time
Step == 10

\* the clock stops at MaxTime hundredths of a second after a launch
MaxTime == 400

\* run invocations executed one after the other
MaxRuns == 2

\* the longest time, in steps of the clock, from ReWrite to CloseFile
MaxWriteSteps == 2

----------------------------------------------------------------------------
(* Text helpers.                                                           *)

StartsWith(s, p) == Len(p) <= Len(s) /\ SubSeq(s, 1, Len(p)) = p

\* str.lower() on the characters that occur in process names
LowerChar(c) ==
  CASE c = "X" -> "x"
    [] c = "E" -> "e"
    [] OTHER -> c

Lower(s) == [i \in 1..Len(s) |-> LowerChar(s[i])]

\* A dict is a sequence of <<key, value>> pairs with distinct keys, in
\* insertion order (Python's dict).
DictKeys(d) == [i \in 1..Len(d) |-> d[i][1]]

DictHas(d, k) == \E i \in 1..Len(d) : d[i][1] = k

DictGet(d, k) == d[CHOOSE i \in 1..Len(d) : d[i][1] = k][2]

\* d[k] = v: an existing key keeps its place and takes the new value
DictSet(d, k, v) ==
  IF DictHas(d, k)
    THEN [i \in 1..Len(d) |-> IF d[i][1] = k THEN <<k, v>> ELSE d[i]]
    ELSE Append(d, <<k, v>>)

----------------------------------------------------------------------------
(* Executable locator: find_altium_process and get_altium_path.            *)

X2Name == <<"x", "2", ".", "e", "x", "e">>

\* the first process whose lower-cased name is "x2.exe", else None
RECURSIVE find_altium_process(_)
find_altium_process(procs) ==
  IF procs = <<>> THEN None
  ELSE IF Lower(Head(procs).name) = X2Name THEN Some(Head(procs).exe)
  ELSE find_altium_process(Tail(procs))

\* pl.Path(ProgramsInstallPath, "X2.exe")
ExePath(dir) == <<dir, "X2.exe">>

\* installs[Version] = Path(ProgramsInstallPath, "X2.exe") for every subkey
RECURSIVE EnumInstalls(_, _)
EnumInstalls(builds, installs) ==
  IF builds = <<>> THEN installs
  ELSE EnumInstalls(Tail(builds),
         DictSet(installs, Head(builds).Version,
                 ExePath(Head(builds).ProgramsInstallPath)))

AnyHint == <<"a", "n", "y">>

\* entries of psutil.process_iter: name() and exe() of a process
ProcOther ==
  [name |-> <<"c", "m", "d", ".", "e", "x", "e">>, exe |-> <<"C:/Windows", "cmd.exe">>]

ProcX2 ==
  [name |-> <<"X", "2", ".", "E", "X", "E">>, exe |-> <<"D:/Altium", "X2.EXE">>]

ProcX2b ==
  [name |-> <<"x", "2", ".", "e", "x", "e">>, exe |-> <<"E:/Other", "X2.exe">>]

\* The outcome of a call: kind "path" (a path is returned), "none" (the
\* function falls off its end and returns None), "NotFound" or "Ambiguous"
\* (the two FileNotFoundError it raises); regRead records whether the
\* registry was opened.
Outcome(kind, path, regRead) == [kind |-> kind, path |-> path, regRead |-> regRead]

\* The registry key SOFTWARE\Altium\Builds: state "absent" (OpenKey raises
\* FileNotFoundError), "denied" (OpenKey raises WindowsError) or "ok" with
\* the subkeys in enumeration order.
Registry(state, builds) == [state |-> state, builds |-> builds]

\* The part of get_altium_path that reads the registry.
FromRegistry(version, registry) ==
  IF registry.state # "ok" THEN Outcome("NotFound", None, TRUE)
  ELSE
    LET installs == EnumInstalls(registry.builds, <<>>)
        keys == DictKeys(installs)
    IN IF IsSome(version) /\ Val(version) # <<>>
         THEN LET Match(k) == StartsWith(k, Val(version))
                  filtered == SelectSeq(keys, Match)
              IN IF Len(filtered) = 0 THEN Outcome("NotFound", None, TRUE)
                 ELSE IF Len(filtered) > 1 THEN Outcome("Ambiguous", None, TRUE)
                 ELSE Outcome("path", Some(DictGet(installs, filtered[1])), TRUE)
         ELSE IF Len(installs) > 0
                THEN Outcome("path", Some(installs[1][2]), TRUE)
                ELSE Outcome("none", None, TRUE)

\* a variant that reads the registry before it looks for a running process
get_altium_path_RegistryFirst(versionArg, procs, registry) ==
  LET version == IF versionArg = Some(AnyHint) THEN None ELSE versionArg
      found == FromRegistry(version, registry)
      path == find_altium_process(procs)
  IN IF found.kind = "path" \/ version # None \/ path = None
       THEN found
       ELSE Outcome("path", path, TRUE)

\* version == "any" stands for no version; with no version a running
\* process is returned if there is one; else the registry is read
get_altium_path(versionArg, procs, registry) ==
  LET version == IF versionArg = Some(AnyHint) THEN None ELSE versionArg
      path == IF version = None THEN find_altium_process(procs) ELSE None
  IN IF version = None /\ IsSome(path)
       THEN Outcome("path", path, FALSE)
       ELSE FromRegistry(version, registry)

----------------------------------------------------------------------------
(* Conversions: float(args.timeout), int(code), WriteLn(return_code).      *)

Digits == <<"0", "1", "2", "3", "4", "5", "6", "7", "8", "9">>

IsDigit(c) == \E i \in 1..10 : Digits[i] = c

DigitVal(c) == (CHOOSE i \in 1..10 : Digits[i] = c) - 1

\* the value of a non-empty run of digits
RECURSIVE DigitsVal(_)
DigitsVal(s) ==
  IF s = <<>> THEN 0
  ELSE DigitsVal(SubSeq(s, 1, Len(s) - 1)) * 10 + DigitVal(s[Len(s)])

AllDigits(s) == \A i \in 1..Len(s) : IsDigit(s[i])

IsSpace(c) == c \in {" ", "\n", "\r", "\t"}

RECURSIVE LStrip(_)
LStrip(s) == IF s # <<>> /\ IsSpace(Head(s)) THEN LStrip(Tail(s)) ELSE s

RECURSIVE RStrip(_)
RStrip(s) ==
  IF s # <<>> /\ IsSpace(s[Len(s)]) THEN RStrip(SubSeq(s, 1, Len(s) - 1)) ELSE s

Strip(s) == RStrip(LStrip(s))

Unsigned(s) == IF s # <<>> /\ Head(s) \in {"+", "-"} THEN Tail(s) ELSE s

\* int(text): None when Python raises ValueError, else Some(value).  Python
\* strips white space and takes an optional sign and decimal digits (the
\* underscore digit separator is left out).
ParseInt(text) ==
  LET t == Strip(text)
      d == Unsigned(t)
  IN IF d = <<>> \/ ~AllDigits(d) THEN None
     ELSE IF Head(t) = "-" THEN Some(0 - DigitsVal(d))
     ELSE Some(DigitsVal(d))

\* the position of the first "." of s, or 0
DotPos(s) ==
  IF \E i \in 1..Len(s) : s[i] = "."
    THEN CHOOSE i \in 1..Len(s) : s[i] = "." /\ \A j \in 1..(i - 1) : s[j] # "."
    ELSE 0

\* float(text) in hundredths of a second: None when Python raises
\* ValueError, else Some(value).  Decimal notation "d", "d.d", ".d", "d."
\* with an optional sign; digits after the second decimal are dropped, and
\* exponents, "inf" and "nan" are left out.
ParseFloat(text) ==
  LET t == Strip(text)
      d == Unsigned(t)
      dot == DotPos(d)
      whole == IF dot = 0 THEN d ELSE SubSeq(d, 1, dot - 1)
      frac == IF dot = 0 THEN <<>> ELSE SubSeq(d, dot + 1, Len(d))
      frac2 == SubSeq(frac \o <<"0", "0">>, 1, 2)
      mag == DigitsVal(whole) * 100 + DigitsVal(frac2)
  IN IF (whole = <<>> /\ frac = <<>>) \/ ~AllDigits(whole) \/ ~AllDigits(frac)
       THEN None
     ELSE IF Head(t) = "-" THEN Some(0 - mag)
     ELSE Some(mag)

\* the decimal digits of n >= 0
RECURSIVE NatToStr(_)
NatToStr(n) ==
  IF n < 10 THEN <<Digits[n + 1]>>
  ELSE NatToStr(n \div 10) \o <<Digits[(n % 10) + 1]>>

IntToStr(n) == IF n < 0 THEN <<"-">> \o NatToStr(0 - n) ELSE NatToStr(n)

\* what WriteLn(tmp_file, return_code) puts in the file
WriteLnText(n) == IntToStr(n) \o <<"\r", "\n">>

\* text-mode reading translates "\r\n" to "\n"
RECURSIVE Universal(_)
Universal(s) ==
  IF s = <<>> THEN <<>>
  ELSE IF Len(s) >= 2 /\ s[1] = "\r" /\ s[2] = "\n"
    THEN <<"\n">> \o Universal(SubSeq(s, 3, Len(s)))
  ELSE <<Head(s)>> \o Universal(Tail(s))

\* fp.readline(): the text up to and including the first "\n"
ReadLine(content) ==
  LET s == Universal(content)
  IN IF \E i \in 1..Len(s) : s[i] = "\n"
       THEN SubSeq(s, 1, CHOOSE i \in 1..Len(s) :
                           s[i] = "\n" /\ \A j \in 1..(i - 1) : s[j] # "\n")
       ELSE s

----------------------------------------------------------------------------
(* The wrapper procedure RunFromAltiumate, executed by the application.    *)

\* return_code := 1
FAILURE_SENTINEL == 1

\* the values a procedure body assigns to return_code
RetCodes == {0, -12}

\* The status artifact: file is None or Some([mtime, content]).  The rest is
\* its history since it was last deleted: the request whose execution wrote
\* it last, the time of the first ReWrite and the number of ReWrites.
NoFile == [file |-> None, by |-> 0, first |-> 0, opens |-> 0]

\* The application: whether its process is alive, the requests it has
\* received and not yet started, and the execution of RunFromAltiumate in
\* progress.  req is the run invocation that asked for the execution;
\* assigned tells whether the body assigned return_code; wrote lists the
\* values the execution has written to the status artifact.
\* open counts the steps of the clock since ReWrite.
ExecIdle ==
  [pc |-> "idle", req |-> 0, return_code |-> 0, assigned |-> FALSE,
   raised |-> FALSE, terminate |-> FALSE, wrote |-> <<>>, open |-> 0]

\* Begin: the application takes the next request, loads the payload as it is
\* now, and runs  return_code := 1; AssignFile(tmp_file, ...)
AppBegin ==
  /\ app.running /\ app.ex.pc = "idle" /\ app.queue # <<>> /\ IsSome(payload)
  /\ app' = [app EXCEPT !.queue = Tail(@),
                        !.ex = [pc |-> "body", req |-> Head(app.queue),
                                return_code |-> FAILURE_SENTINEL,
                                assigned |-> FALSE, raised |-> FALSE,
                                terminate |-> Val(payload).terminate,
                                wrote |-> <<>>, open |-> 0]]
  /\ UNCHANGED <<now, artifact, payload, eng, runs, loc, pat, prj, cli, pas>>

\* ReWrite(tmp_file): the file is created or truncated
ReWritten(a, req) ==
  [file |-> Some([mtime |-> now, content |-> <<>>]),
   by |-> req,
   first |-> IF a.opens = 0 THEN now ELSE a.first,
   opens |-> a.opens + 1]

\* a variant with Try ... Except in place of Try ... Finally: an exception
\* of the body leaves the procedure without writing the file
AfterTry_Except(raises) == IF raises THEN "after" ELSE "rewritten"

\* where the execution continues once the statements of the Try part are
\* over, by a normal end or by an exception: in the Finally part, which
\* starts with ReWrite
AfterTry(raises) == "rewritten"

\* Try {call_procedure} Finally ReWrite(tmp_file): the body assigns
\* return_code or not, and ends normally or raises; the Finally part opens
\* the file
AppBody ==
  /\ app.ex.pc = "body"
  /\ \E assigns \in BOOLEAN, v \in RetCodes, raises \in BOOLEAN :
       /\ app' = [app EXCEPT !.ex.pc = AfterTry(raises),
                             !.ex.return_code = IF assigns THEN v ELSE @,
                             !.ex.assigned = assigns,
                             !.ex.raised = raises]
       /\ artifact' = IF AfterTry(raises) = "rewritten"
                        THEN ReWritten(artifact, app.ex.req)
                        ELSE artifact
  /\ UNCHANGED <<now, payload, eng, runs, loc, pat, prj, cli, pas>>

\* WriteLn(tmp_file, return_code); CloseFile(tmp_file): the buffered line
\* reaches the file
AppWriteLn ==
  /\ app.ex.pc = "rewritten"
  /\ artifact' = [artifact EXCEPT
                    !.file = Some([mtime |-> now,
                                   content |-> WriteLnText(app.ex.return_code)]),
                    !.by = app.ex.req]
  /\ app' = [app EXCEPT !.ex.pc = "after",
                        !.ex.wrote = Append(@, app.ex.return_code)]
  /\ UNCHANGED <<now, payload, eng, runs, loc, pat, prj, cli, pas>>

\* end; then TerminateWithExitCode(return_code) when terminate is set (an
\* exception of the body leaves the procedure after the Finally part); End:
\* the application is ready for the next request
AppAfter ==
  /\ app.ex.pc = "after"
  /\ IF app.ex.terminate /\ ~app.ex.raised
       THEN app' = [app EXCEPT !.running = FALSE, !.queue = <<>>, !.ex = ExecIdle]
       ELSE app' = [app EXCEPT !.ex = ExecIdle]
  /\ UNCHANGED <<now, artifact, payload, eng, runs, loc, pat, prj, cli, pas>>

----------------------------------------------------------------------------
(* The run invocation: _handle_run.                                        *)

\* (time.time() - os.path.getmtime(AD_return_file)) > 0.1
DEBOUNCE_AGE == 10

\* time.sleep(0.3)
POLL_INTERVAL == 30

\* assert max_run_time > 3
MIN_RUN_TIME == 300

\* assert max_run_time < 3600
MAX_RUN_TIME == 360000

\* config.DEFAULT_RUN_TIMEOUT = 60.0
DEFAULT_RUN_TIMEOUT == 6000

\* return 1 after "Invalid return code"
INVALID_RETURN == 1

V241 == <<"2", "4", ".", "1">>

V2410 == <<"2", "4", ".", "1", "0">>

V250 == <<"2", "5", ".", "0">>

Build(version, dir) == [Version |-> version, ProgramsInstallPath |-> dir]

\* the registry of the machine the run invocations execute on
EngineRegistry ==
  Registry("ok", <<Build(V241, "C:/AD24.1"), Build(V2410, "C:/AD24.10"),
                   Build(V250, "C:/AD25")>>)

\* the process list while the application runs, and while it does not
RunningProcs(running) ==
  IF running THEN <<ProcOther, ProcX2>> ELSE <<ProcOther>>

\* --altium-version
EngineHints == {None, Some(V250), Some(<<"2", "4">>), Some(<<"9">>)}

\* --timeout: None when the option is absent (the default, a float)
TimeoutArgs ==
  {None, Some(<<"a", "b", "c">>), Some(<<"3">>), Some(<<"3", ".", "2", "5">>),
   Some(<<"3", ".", "3">>), Some(<<"3", "6", "0", "0">>)}

\* the sub-command of run; "" when none is given
RunCmds == {"", "procedure", "outjob", "unsaved-check"}

\* The arguments of a run invocation.  procedure: args.procedure or
\* args.file is non-empty; project: file_exists(args.project_path).
\* Every value of every argument occurs; the arguments that no statement
\* reads once the others are valid are not multiplied out.
RunArgs ==
  [AD_version : {None}, run_cmd : {"procedure"}, procedure : {TRUE},
   project : {TRUE}, timeout : TimeoutArgs, terminate : BOOLEAN]
  \cup
  [AD_version : EngineHints, run_cmd : RunCmds, procedure : {TRUE},
   project : {TRUE}, timeout : {None}, terminate : {FALSE}]
  \cup
  [AD_version : {None}, run_cmd : RunCmds, procedure : BOOLEAN,
   project : BOOLEAN, timeout : {Some(<<"3">>)}, terminate : {FALSE}]

\* The run invocation.  pc: "idle", "wait" (in the wait loop, asleep until
\* wake) or "done"; outcome: "returned" (code is the value returned), or the
\* error the invocation ends with: "NotFound", "Ambiguous" (get_altium_path),
\* "UsageError" (parser.error), "PermissionError" (unlink),
\* "AssertionError", "LaunchError" (Popen),
\* "Timeout" (TimeoutError), "InvalidResult" ("Invalid return code" is
\* logged, code is the value returned).  timeout is the flag of the loop.
\* The rest records what happened: arg is args.timeout, rendered and
\* launched tell whether render_constants and Popen were called, fallback
\* whether "Invalid timeout value" was logged, seen whether a check found the
\* artifact, young whether a check found it too young, read the file as it
\* was read, ended the time the invocation ended.
EngIdle ==
  [pc |-> "idle", id |-> 0, outcome |-> "", code |-> None, arg |-> None,
   max_run_time |-> 0, proc_start |-> 0, timeout |-> FALSE, wake |-> 0,
   rendered |-> FALSE, launched |-> FALSE, fallback |-> FALSE, seen |-> FALSE,
   young |-> FALSE, read |-> None, ended |-> 0]

\* the invocation ends before the wait loop: an exception, parser.error or
\* the early return 0 of unsaved-check
EndEarly(id, a, outcome, code, rendered) ==
  [EngIdle EXCEPT !.pc = "done", !.id = id, !.outcome = outcome, !.code = code,
                  !.arg = a.timeout, !.rendered = rendered,
                  !.fallback = rendered /\ a.timeout # None
                                 /\ ParseFloat(Val(a.timeout)) = None,
                  !.ended = now]

\* float(args.timeout), DEFAULT_RUN_TIMEOUT when it raises
max_run_time(timeoutArg) ==
  IF timeoutArg = None THEN DEFAULT_RUN_TIMEOUT
  ELSE IF ParseFloat(Val(timeoutArg)) = None THEN DEFAULT_RUN_TIMEOUT
  ELSE Val(ParseFloat(Val(timeoutArg)))

\* a variant without the two assertions
TimeoutAccepted_Any(t) == TRUE

\* the two assertions on max_run_time
TimeoutAccepted(t) == t > MIN_RUN_TIME /\ t < MAX_RUN_TIME

\* _handle_run up to the wait loop, as the state of the invocation when it
\* reaches the loop or ends before it.  busy: the application holds the
\* status artifact open, and AD_return_file.unlink(True) raises.
RunSetup(id, a, procs, registry, busy) ==
  LET altium == get_altium_path(a.AD_version, procs, registry)
      t == max_run_time(a.timeout)
  IN IF altium.kind \in {"NotFound", "Ambiguous"}
       THEN EndEarly(id, a, altium.kind, None, FALSE)
     ELSE IF a.run_cmd = ""
       THEN EndEarly(id, a, "UsageError", None, FALSE)
     ELSE IF a.run_cmd = "procedure" /\ ~a.procedure
       THEN EndEarly(id, a, "UsageError", None, FALSE)
     ELSE IF a.run_cmd # "procedure" /\ ~a.project
       THEN EndEarly(id, a, "UsageError", None, FALSE)
     ELSE IF a.run_cmd = "unsaved-check" /\ find_altium_process(procs) = None
       THEN EndEarly(id, a, "returned", Some(0), FALSE)
     ELSE IF busy
       THEN EndEarly(id, a, "PermissionError", None, FALSE)
     ELSE IF ~TimeoutAccepted(t)
       THEN EndEarly(id, a, "AssertionError", None, TRUE)
     ELSE IF altium.kind = "none"
       THEN EndEarly(id, a, "LaunchError", None, TRUE)
     ELSE [EngIdle EXCEPT !.pc = "wait", !.id = id, !.arg = a.timeout,
                          !.max_run_time = t, !.proc_start = 0,
                          !.wake = 0, !.rendered = TRUE, !.launched = TRUE,
                          !.fallback = a.timeout # None
                                         /\ ParseFloat(Val(a.timeout)) = None]

\* A run invocation starts and runs up to its wait loop: render_constants
\* deletes the status artifact and rewrites the payload, Popen hands the
\* request to the application (starting it when it is not running).  The
\* program uses only differences of times, all of them taken after
\* proc_start = time.time(): the origin of the clock is moved to the launch.
Invoke ==
  /\ eng.pc \in {"idle", "done"} /\ runs < MaxRuns
  /\ \E a \in RunArgs :
       LET e == RunSetup(runs + 1, a, RunningProcs(app.running), EngineRegistry,
                         app.ex.pc = "rewritten")
       IN /\ eng' = e
          /\ artifact' = IF e.rendered THEN NoFile ELSE artifact
          /\ payload' = IF e.rendered
                          THEN Some([terminate |-> a.terminate])
                          ELSE payload
          /\ app' = IF e.launched
                      THEN [app EXCEPT !.running = TRUE, !.queue = Append(@, e.id)]
                      ELSE app
          /\ now' = IF e.launched THEN 0 ELSE now
  /\ runs' = runs + 1
  /\ UNCHANGED <<loc, pat, prj, cli, pas>>

\* a variant without the age condition: the file is read as soon as it exists
Settled_NoDebounce(file, t) == IsSome(file)

\* a variant that lets the file age for one more poll interval
Settled_Slow(file, t) ==
  IsSome(file) /\ (t - Val(file).mtime) > DEBOUNCE_AGE + POLL_INTERVAL

\* AD_return_file.exists() and time.time() - getmtime(AD_return_file) > 0.1
Settled(file, t) == IsSome(file) /\ (t - Val(file).mtime) > DEBOUNCE_AGE

\* a variant that takes a line that is no integer for the result 0
DecodeResult_Zero(e, line) ==
  IF ParseInt(line) = None
    THEN [e EXCEPT !.outcome = "returned", !.code = Some(0)]
    ELSE [e EXCEPT !.outcome = "returned", !.code = ParseInt(line)]

\* the result of the invocation from the line read: int(code), or 1 when
\* int raises
DecodeResult(e, line) ==
  IF ParseInt(line) = None
    THEN [e EXCEPT !.outcome = "InvalidResult", !.code = Some(INVALID_RETURN)]
    ELSE [e EXCEPT !.outcome = "returned", !.code = ParseInt(line)]

\* a variant that takes max_run_time, a number of seconds, for a number of
\* hundredths of a second
TimedOut_Units(e, t) == (t - e.proc_start) * 100 > e.max_run_time

\* timeout = (time.time() - proc_start) > max_run_time
TimedOut(e, t) == (t - e.proc_start) > e.max_run_time

\* One evaluation of the condition of the while loop, with what follows it:
\* the loop body up to the sleep, or the statements after the loop.
Check ==
  /\ eng.pc = "wait" /\ now = eng.wake
  /\ LET file == artifact.file
         settled == Settled(file, now)
         obs == [eng EXCEPT !.seen = @ \/ IsSome(file),
                            !.young = @ \/ (IsSome(file) /\ ~settled)]
     IN IF settled \/ eng.timeout
          THEN IF eng.timeout
                 THEN eng' = [obs EXCEPT !.pc = "done", !.outcome = "Timeout",
                                         !.ended = now]
                 ELSE eng' = DecodeResult(
                        [obs EXCEPT !.pc = "done", !.ended = now,
                                    !.read = Some([mtime |-> Val(file).mtime,
                                                   content |-> Val(file).content,
                                                   by |-> artifact.by,
                                                   first |-> artifact.first,
                                                   opens |-> artifact.opens])],
                        ReadLine(Val(file).content))
          ELSE eng' = [obs EXCEPT !.timeout = TimedOut(eng, now),
                                  !.wake = now + POLL_INTERVAL]
  /\ UNCHANGED <<now, artifact, payload, app, runs, loc, pat, prj, cli, pas>>

\* the application has a step to take that takes no time: it starts on a
\* request as soon as it is free, the statements after CloseFile follow it
\* at once, and CloseFile follows ReWrite within MaxWriteSteps steps of the
\* clock
AppUrgent ==
  \/ app.running /\ app.ex.pc = "idle" /\ app.queue # <<>> /\ IsSome(payload)
  \/ app.ex.pc = "after"
  \/ app.ex.pc = "rewritten" /\ app.ex.open >= MaxWriteSteps

\* Time passes: by Step, or up to the end of the sleep if that comes first.
\* Only the wait loop reads the clock: time is counted while an invocation
\* is in it.
Tick ==
  /\ now < MaxTime
  /\ eng.pc = "wait" /\ now < eng.wake
  /\ ~AppUrgent
  /\ now' = IF eng.wake < now + Step THEN eng.wake ELSE now + Step
  /\ app' = IF app.ex.pc = "rewritten" THEN [app EXCEPT !.ex.open = @ + 1] ELSE app
  /\ UNCHANGED <<artifact, payload, eng, runs, loc, pat, prj, cli, pas>>

\* a status artifact left by a run of long ago
StaleFile ==
  [file |-> Some([mtime |-> 0 - 100000, content |-> WriteLnText(0)]),
   by |-> 0, first |-> 0 - 100000, opens |-> 1]

EngineInit ==
  /\ now = 0
  /\ artifact \in {NoFile, StaleFile}
  /\ payload = None
  /\ eng = EngIdle
  /\ app \in [running : BOOLEAN, queue : {<<>>}, ex : {ExecIdle}]
  /\ runs = 0

EngineNext ==
  \/ Invoke
  \/ Check
  \/ Tick
  \/ AppBegin
  \/ AppBody
  \/ AppWriteLn
  \/ AppAfter

----------------------------------------------------------------------------
(* Calls of get_altium_path in every environment.                          *)

ProcLists ==
  {<<>>, <<ProcOther>>, <<ProcX2>>, <<ProcOther, ProcX2>>, <<ProcX2b, ProcX2>>}

\* the subkeys a registry can hold; two of them give the same version
BuildSet ==
  {Build(V241, "C:/AD24.1"), Build(V2410, "C:/AD24.10"), Build(V250, "C:/AD25"),
   Build(V241, "D:/AD24.1b")}

\* enumerations of at most MaxBuilds different subkeys
BuildLists ==
  {b \in UNION {[1..n -> BuildSet] : n \in 0..MaxBuilds} :
     \A i, j \in 1..Len(b) : i # j => b[i] # b[j]}

Registries ==
  {Registry("absent", <<>>), Registry("denied", <<>>)}
    \cup {Registry("ok", b) : b \in BuildLists}

Hints ==
  {None, Some(AnyHint), Some(<<>>), Some(V241), Some(V2410), Some(V250),
   Some(<<"2", "4">>), Some(<<"9">>)}

LocIdle == [procs |-> <<>>, registry |-> Registry("absent", <<>>),
            version |-> None, result |-> None]

LocInit ==
  loc \in [procs : ProcLists, registry : Registries, version : Hints,
           result : {None}]

\* get_altium_path(version) is called
Resolve ==
  /\ loc.result = None
  /\ loc' = [loc EXCEPT
               !.result = Some(get_altium_path(loc.version, loc.procs, loc.registry))]
  /\ UNCHANGED <<now, artifact, payload, eng, app, runs, pat, prj, cli, pas>>

\* the next call, with another hint: nothing is kept from a call to the next
Again ==
  /\ loc.result # None
  /\ \E v \in Hints : loc' = [loc EXCEPT !.version = v, !.result = None]
  /\ UNCHANGED <<now, artifact, payload, eng, app, runs, pat, prj, cli, pas>>

----------------------------------------------------------------------------
(* The documentation patcher: update_readme.                               *)

\* documents are made of at most MaxPieces pieces
MaxPieces == 3

\* calls of update_readme on the same file, one after the other
MaxCalls == 2

\* "[]("
OpenMark == <<"[", "]", "(">>

\* "[](/)"
CloseMark == <<"[", "]", "(", "/", ")">>

\* the text p occurs in s at position i
At(s, i, p) == i + Len(p) - 1 <= Len(s) /\ SubSeq(s, i, i + Len(p) - 1) = p

\* "." matches any character but a newline
NoNewline(s, i, j) == \A h \in i..j : s[h] # "\n"

Min(S) == CHOOSE x \in S : \A y \in S : x <= y

\* (.*?)\[\]\(/\) from position p: the position of the first "[](/)" that
\* only characters other than newlines separate from p, or 0
BodyEnd(s, p) ==
  LET ends == {q \in p..Len(s) : At(s, q, CloseMark) /\ NoNewline(s, p, q - 1)}
  IN IF ends = {} THEN 0 ELSE Min(ends)

\* (.*?)\) from position i, followed by the rest of the pattern: the
\* position of the first ")" after which the rest matches, or 0
KeyEnd(s, i) ==
  LET ends == {j \in i..Len(s) : /\ s[j] = ")"
                                  /\ NoNewline(s, i, j - 1)
                                  /\ BodyEnd(s, j + 1) # 0}
  IN IF ends = {} THEN 0 ELSE Min(ends)

\* the pattern matches at position i
MatchAt(s, i) == At(s, i, OpenMark) /\ KeyEnd(s, i + Len(OpenMark)) # 0

\* the position of the leftmost match at or after pos, or 0
Search(s, pos) ==
  LET starts == {i \in pos..Len(s) : MatchAt(s, i)}
  IN IF starts = {} THEN 0 ELSE Min(starts)

\* f"[]({key}){value}[](/)"
Slot(key, value) == OpenMark \o key \o <<")">> \o value \o CloseMark

\* replacer(match) on the state st of the substitution: parameters, inserted,
\* the text produced so far, and the key KeyError was raised for
replacer(st, key, fail_on_missing) ==
  IF ~DictHas(st.parameters, key)
    THEN IF fail_on_missing
           THEN [st EXCEPT !.raised = Some(key)]
           ELSE [st EXCEPT !.parameters = DictSet(@, key, key),
                           !.data = @ \o Slot(key, key)]
    ELSE [st EXCEPT !.inserted = @ + 1,
                    !.data = @ \o Slot(key, DictGet(st.parameters, key))]

\* re.sub(insert_pattern, replacer, data) from position pos on: the matches
\* are taken from left to right and do not overlap, the text between them
\* is copied, and an exception of replacer ends the substitution
RECURSIVE Sub(_, _, _, _)
Sub(s, pos, st, fail_on_missing) ==
  LET i == Search(s, pos)
  IN IF i = 0
       THEN [st EXCEPT !.data = @ \o SubSeq(s, pos, Len(s))]
     ELSE
       LET j == KeyEnd(s, i + Len(OpenMark))
           q == BodyEnd(s, j + 1)
           key == SubSeq(s, i + Len(OpenMark), j - 1)
           copied == [st EXCEPT !.data = @ \o SubSeq(s, pos, i - 1)]
           r == replacer(copied, key, fail_on_missing)
       IN IF IsSome(r.raised) THEN r
          ELSE Sub(s, q + Len(CloseMark), r, fail_on_missing)

\* a variant that returns the number of parameters inserted
update_readme_Count(readme, parameters, fail_on_missing) ==
  LET st == Sub(readme, 1,
                [parameters |-> parameters, inserted |-> 0, data |-> <<>>,
                 raised |-> None], fail_on_missing)
  IN IF IsSome(st.raised)
       THEN [outcome |-> "KeyError", ret |-> None, readme |-> readme,
             parameters |-> st.parameters, inserted |-> st.inserted]
       ELSE [outcome |-> "returned", ret |-> Some(st.inserted), readme |-> st.data,
             parameters |-> st.parameters, inserted |-> st.inserted]

\* a variant that writes the text substituted so far when replacer raises
update_readme_Partial(readme, parameters, fail_on_missing) ==
  LET st == Sub(readme, 1,
                [parameters |-> parameters, inserted |-> 0, data |-> <<>>,
                 raised |-> None], fail_on_missing)
  IN IF IsSome(st.raised)
       THEN [outcome |-> "KeyError", ret |-> None, readme |-> st.data,
             parameters |-> st.parameters, inserted |-> st.inserted]
       ELSE [outcome |-> "returned", ret |-> Some(0), readme |-> st.data,
             parameters |-> st.parameters, inserted |-> st.inserted]

\* update_readme(readme, parameters, fail_on_missing): the file is read,
\* substituted, and written back unless replacer raised KeyError; readme is
\* the content of the file and parameters the caller's dict after the call,
\* inserted the number logged, ret the value returned
update_readme(readme, parameters, fail_on_missing) ==
  LET st == Sub(readme, 1,
                [parameters |-> parameters, inserted |-> 0, data |-> <<>>,
                 raised |-> None], fail_on_missing)
  IN IF IsSome(st.raised)
       THEN [outcome |-> "KeyError", ret |-> None, readme |-> readme,
             parameters |-> st.parameters, inserted |-> st.inserted]
       ELSE [outcome |-> "returned", ret |-> Some(0), readme |-> st.data,
             parameters |-> st.parameters, inserted |-> st.inserted]

KeyRev == <<"R", "e", "v">>

KeyK == <<"K">>

\* the pieces documents are made of: slots, marks on their own, a newline
DocPieces ==
  {Slot(KeyRev, <<"o", "l", "d">>), Slot(KeyK, <<>>), OpenMark, CloseMark,
   <<"\n">>, <<"x", ")">>}

RECURSIVE Concat(_)
Concat(ps) == IF ps = <<>> THEN <<>> ELSE Head(ps) \o Concat(Tail(ps))

Documents == {Concat(ps) : ps \in UNION {[1..n -> DocPieces] : n \in 0..MaxPieces}}

\* the values of parameters; two of them hold marks
ParamValues == {<<"3">>, CloseMark, Slot(KeyK, <<"v">>)}

\* the dicts with keys among Rev and K
ParamDicts ==
  {<<>>}
    \cup {<< <<k, v>> >> : k \in {KeyRev, KeyK}, v \in ParamValues}
    \cup {<< <<KeyRev, v>>, <<KeyK, <<"3">>>> >> : v \in ParamValues}

\* A README file, the caller's parameters and the calls of update_readme on
\* them: before and given are the file and the parameters before the latest
\* call, and outcome, ret, inserted tell how that call ended; supplied is
\* the parameters as the caller made them, before the first call.
PatIdle ==
  [readme |-> <<>>, parameters |-> <<>>, fail_on_missing |-> TRUE, calls |-> 0,
   before |-> <<>>, given |-> <<>>, outcome |-> "", ret |-> None, inserted |-> 0,
   supplied |-> <<>>]

PatInit ==
  \E d \in Documents, ps \in ParamDicts, f \in BOOLEAN :
    pat = [PatIdle EXCEPT !.readme = d, !.parameters = ps, !.fail_on_missing = f,
                          !.supplied = ps]

\* update_readme(readme, parameters, fail_on_missing) is called
Patch ==
  /\ pat.calls < MaxCalls
  /\ LET r == update_readme(pat.readme, pat.parameters, pat.fail_on_missing)
     IN pat' = [pat EXCEPT !.readme = r.readme, !.parameters = r.parameters,
                           !.calls = @ + 1, !.before = pat.readme,
                           !.given = pat.parameters, !.outcome = r.outcome,
                           !.ret = r.ret, !.inserted = r.inserted]
  /\ UNCHANGED <<now, artifact, payload, eng, app, runs, loc, prj, cli, pas>>

----------------------------------------------------------------------------
(* The project parameter scanner: parse_prjpcb_params.                     *)

\* project files are made of at most MaxItems items
MaxItems == 4

\* "[Parameter"
ParameterMark == <<"[", "P", "a", "r", "a", "m", "e", "t", "e", "r">>

\* check.match(line): the line starts with "[Parameter" and a digit
IsMarker(line) ==
  /\ Len(line) > Len(ParameterMark)
  /\ StartsWith(line, ParameterMark)
  /\ IsDigit(line[Len(ParameterMark) + 1])

\* line.split("=", 1): the position of the first "=" of the line, or 0
EqPos(line) ==
  IF \E i \in 1..Len(line) : line[i] = "="
    THEN Min({i \in 1..Len(line) : line[i] = "="})
    ELSE 0

\* line.split("=", 1)[1]: the text after the first "="
AfterEq(line) == SubSeq(line, EqPos(line) + 1, Len(line))

\* The loop over the lines from line i on, with the dict out built so far:
\* after a marker line the next two lines are taken for the name and the
\* value.  next() raises StopIteration at the end of the file, and [1]
\* raises IndexError on a line without "=".
RECURSIVE ScanFrom(_, _, _)
ScanFrom(lines, i, out) ==
  IF i > Len(lines) THEN [outcome |-> "returned", out |-> Some(out)]
  ELSE IF ~IsMarker(lines[i]) THEN ScanFrom(lines, i + 1, out)
  ELSE IF i + 1 > Len(lines) THEN [outcome |-> "StopIteration", out |-> None]
  ELSE IF EqPos(lines[i + 1]) = 0 THEN [outcome |-> "IndexError", out |-> None]
  ELSE IF i + 2 > Len(lines) THEN [outcome |-> "StopIteration", out |-> None]
  ELSE IF EqPos(lines[i + 2]) = 0 THEN [outcome |-> "IndexError", out |-> None]
  ELSE ScanFrom(lines, i + 3,
                DictSet(out, AfterEq(lines[i + 1]), AfterEq(lines[i + 2])))

\* a variant that keeps the value of the first block of a name
RECURSIVE ScanFrom_First(_, _, _)
ScanFrom_First(lines, i, out) ==
  IF i > Len(lines) THEN [outcome |-> "returned", out |-> Some(out)]
  ELSE IF ~IsMarker(lines[i]) THEN ScanFrom_First(lines, i + 1, out)
  ELSE IF i + 1 > Len(lines) THEN [outcome |-> "StopIteration", out |-> None]
  ELSE IF EqPos(lines[i + 1]) = 0 THEN [outcome |-> "IndexError", out |-> None]
  ELSE IF i + 2 > Len(lines) THEN [outcome |-> "StopIteration", out |-> None]
  ELSE IF EqPos(lines[i + 2]) = 0 THEN [outcome |-> "IndexError", out |-> None]
  ELSE ScanFrom_First(lines, i + 3,
         IF DictHas(out, AfterEq(lines[i + 1])) THEN out
         ELSE DictSet(out, AfterEq(lines[i + 1]), AfterEq(lines[i + 2])))

\* a variant of the whole function on that loop
parse_prjpcb_params_First(lines) == ScanFrom_First(lines, 1, <<>>)

\* parse_prjpcb_params(prjpcb) on the lines of the file
parse_prjpcb_params(lines) == ScanFrom(lines, 1, <<>>)

\* "[Parameter" n "]"
MarkerLine(n) == ParameterMark \o <<n, "]">>

NameLine(name) == <<"N", "a", "m", "e", "=">> \o name

ValueLine(value) == <<"V", "a", "l", "u", "e", "=">> \o value

\* An item of a project file: a parameter block, a line of another kind, a
\* marker line alone, or a marker line with a name line only.
Block(n, name, value) ==
  [kind |-> "block", name |-> name, value |-> value,
   lines |-> <<MarkerLine(n), NameLine(name), ValueLine(value)>>]

Other(line) == [kind |-> "other", name |-> <<>>, value |-> <<>>, lines |-> <<line>>]

Broken(lines) == [kind |-> "broken", name |-> <<>>, value |-> <<>>, lines |-> lines]

ParamNames == {<<"F", "o", "o">>, <<"B">>}

ParamTexts == {<<"B", "a", "r">>, <<"a", "=", "b">>, <<>>}

PrjItems ==
  {Block("1", n, v) : n \in ParamNames, v \in ParamTexts}
    \cup {Other(<<>>),
          Other(<<"[", "D", "e", "s", "i", "g", "n", "]">>),
          Other(ParameterMark \o <<"C", "o", "u", "n", "t", "=", "2">>),
          Broken(<<MarkerLine("2")>>),
          Broken(<<MarkerLine("2"), NameLine(<<"B">>)>>)}

\* the lines of a sequence of items
RECURSIVE ItemLines(_)
ItemLines(items) ==
  IF items = <<>> THEN <<>> ELSE Head(items).lines \o ItemLines(Tail(items))

\* A project file and a call of parse_prjpcb_params on it
PrjIdle == [items |-> <<>>, lines |-> <<>>, outcome |-> "", out |-> None]

PrjInit ==
  \E items \in UNION {[1..n -> PrjItems] : n \in 0..MaxItems} :
    prj = [PrjIdle EXCEPT !.items = items, !.lines = ItemLines(items)]

\* parse_prjpcb_params(prjpcb) is called
Scan ==
  /\ prj.outcome = ""
  /\ LET r == parse_prjpcb_params(prj.lines)
     IN prj' = [prj EXCEPT !.outcome = r.outcome, !.out = r.out]
  /\ UNCHANGED <<now, artifact, payload, eng, app, runs, loc, pat, cli, pas>>

----------------------------------------------------------------------------
(* The command line: main, the handlers of its commands, the exit status.  *)

\* Python values a handler returns: None, an int, or a str (of which only
\* the length matters)
PyNone == [type |-> "NoneType", v |-> 0]

PyInt(n) == [type |-> "int", v |-> n]

PyStr(length) == [type |-> "str", v |-> length]

\* How a call ends: "return" with a value, "raise" with an exception of
\* class Exception, "interrupt" (KeyboardInterrupt) or "exit" (SystemExit
\* with a code); reported names the failure the call has reported by then,
\* "" when it has reported none.
Return(value, reported) ==
  [how |-> "return", value |-> value, reported |-> reported]

Raise(reported) == [how |-> "raise", value |-> PyNone, reported |-> reported]

\* parser.error(message): the usage and the message are printed and
\* SystemExit(2) is raised
ParserError == [how |-> "exit", value |-> PyInt(2), reported |-> "UsageError"]

\* _handle_pre_commit(args, parser)
handle_pre_commit(a) ==
  IF a.opt = "sample-config" THEN Return(PyInt(0), "")
  ELSE IF a.opt \in {"add-config", "add-linked-config"}
    THEN IF ~a.is_dir THEN Return(PyNone, "NotADirectory")
         ELSE IF a.exists /\ ~a.force THEN Return(PyNone, "ConfigExists")
         ELSE Return(PyNone, "")
  ELSE IF a.opt = "install"
    THEN IF a.stderr = 0 THEN Return(PyStr(0), "")
         ELSE Return(PyNone, "InstallError")
  ELSE Return(PyInt(1), "Usage")

\* _handle_run(args, parser), from the way the run invocation ends
handle_run(a) ==
  IF a.outcome = "returned" THEN Return(PyInt(a.code), "")
  ELSE IF a.outcome = "InvalidResult" THEN Return(PyInt(INVALID_RETURN), "InvalidResult")
  ELSE IF a.outcome = "UsageError" THEN ParserError
  ELSE IF a.outcome = "Interrupted"
    THEN [how |-> "interrupt", value |-> PyNone, reported |-> "Interrupted"]
  ELSE Raise(a.outcome)

\* _handle_readme(args, parser), from the way parse_prjpcb_params and
\* update_readme end
handle_readme(a) ==
  IF ~a.is_dir \/ ~a.exists THEN ParserError
  ELSE IF a.outcome \in {"StopIteration", "IndexError", "KeyError"} THEN Raise(a.outcome)
  ELSE Return(PyInt(0), "")

\* main(argv): what it returns or how it leaves, and the failure reported
main(a) ==
  IF a.cmd = "" /\ a.opt = "" THEN Return(PyNone, "")
  ELSE IF a.opt = "version" THEN Return(PyInt(0), "")
  ELSE IF a.opt = "altium-path"
    THEN IF a.outcome \in {"NotFound", "Ambiguous"}
           THEN Return(PyInt(1), a.outcome)
           ELSE Return(PyInt(0), "")
  ELSE
    LET r == CASE a.cmd = "pre-commit" -> handle_pre_commit(a)
               [] a.cmd = "run" -> handle_run(a)
               [] a.cmd = "readme" -> handle_readme(a)
    IN IF r.how \in {"raise", "interrupt"} THEN Return(PyInt(1), r.reported)
       ELSE r

\* raise SystemExit(main()): the exit status of the process
ExitStatus(r) ==
  IF r.value.type = "NoneType" THEN 0
  ELSE IF r.value.type = "int" THEN r.value.v
  ELSE 1

\* The arguments and the environment of an execution.  cmd is the command
\* and opt the option that selects what it does; is_dir, exists, force and
\* stderr (the length of the output of "pre-commit install" on stderr) are
\* read by pre-commit, is_dir and exists (the project file and the README
\* exist) by readme; outcome and code tell how the operation of run, readme
\* or --altium-path ends.
CliArgs(cmd, opts, outcomes, codes, stderrs) ==
  [cmd : {cmd}, opt : opts, is_dir : BOOLEAN, exists : BOOLEAN, force : BOOLEAN,
   stderr : stderrs, outcome : outcomes, code : codes]

CliInputs ==
  CliArgs("", {"", "version"}, {""}, {0}, {0})
    \cup CliArgs("", {"altium-path"}, {"path", "none", "NotFound", "Ambiguous"}, {0}, {0})
    \cup CliArgs("pre-commit",
                 {"", "sample-config", "add-config", "add-linked-config", "install"},
                 {""}, {0}, {0, 1})
    \cup CliArgs("run", {""},
                 {"returned", "InvalidResult", "UsageError", "Interrupted", "NotFound",
                  "Ambiguous", "PermissionError", "AssertionError", "LaunchError",
                  "Timeout"},
                 {0, 1, -12}, {0})
    \cup CliArgs("readme", {""},
                 {"returned", "StopIteration", "IndexError", "KeyError"}, {0}, {0})

\* an execution: its arguments, and how it ended
CliIdle ==
  [args |-> [cmd |-> "", opt |-> "", is_dir |-> FALSE, exists |-> FALSE,
             force |-> FALSE, stderr |-> 0, outcome |-> "", code |-> 0],
   done |-> FALSE, reported |-> "", result |-> PyNone, status |-> 0]

CliInit == \E a \in CliInputs : cli = [CliIdle EXCEPT !.args = a]

\* the process runs main and exits
Main ==
  /\ ~cli.done
  /\ LET r == main(cli.args)
     IN cli' = [cli EXCEPT !.done = TRUE, !.reported = r.reported,
                           !.result = r.value, !.status = ExitStatus(r)]
  /\ UNCHANGED <<now, artifact, payload, eng, app, runs, loc, pat, prj, pas>>

----------------------------------------------------------------------------
(* The script materializer: the text render_constants writes.              *)

\* A line of altiumate.pas: the text of the template, and the text put in
\* its place holder, if it has one.
Line(text) == [text |-> text, arg |-> <<>>]

LineWith(text, arg) == [text |-> text, arg |-> arg]

\* f"  {k} = '{v}';" for every parameter, in the order of the dict
ConstLines(params) ==
  [n \in 1..Len(params) |->
     LineWith("  {k} = '{v}';",
              params[n][1] \o <<" ", "=", " ", "'">> \o params[n][2] \o <<"'", ";">>)]

\* header: "Const", the constants and a line break, or nothing
Header(params) ==
  IF params # <<>> THEN <<Line("Const")>> \o ConstLines(params) ELSE <<>>

\* a variant that writes call_procedure as it is given
Terminated_AsGiven(call_procedure) == call_procedure

\* if call_procedure[-1] != ";": call_procedure += ";"
Terminated(call_procedure) ==
  IF call_procedure[Len(call_procedure)] # ";"
    THEN call_procedure \o <<";">>
    ELSE call_procedure

\* render_constants(call_procedure, terminate, **params): the lines written
\* to AD_scripting/altiumate.pas
render_constants(call_procedure, terminate, params) ==
  Header(params) \o
  <<Line("Var"),
    Line("  return_code: integer;"),
    Line(""),
    Line("Procedure RunFromAltiumate;"),
    Line("Var"),
    Line("  tmp_file: TextFile;"),
    Line("Begin"),
    Line("  return_code := 1;"),
    Line("  AssignFile(tmp_file, '{AD_return_file}');"),
    Line("  Try"),
    LineWith("    {call_procedure}", Terminated(call_procedure)),
    Line("  Finally"),
    Line("    ReWrite(tmp_file);"),
    Line("    WriteLn(tmp_file, return_code);"),
    Line("    CloseFile(tmp_file);"),
    Line("  end;"),
    IF terminate THEN Line("  TerminateWithExitCode(return_code);") ELSE Line("  "),
    Line("End;")>>

\* the texts passed as call_procedure: a procedure name, statements with
\* and without the last ";", and the text _handle_run makes for outjob
CallProcedures ==
  {<<"f">>, <<"f", ";">>, <<"a", ";", "b">>, <<"f", ";", " ">>,
   <<"g", ";", "\n", "r", ":", "=", "0", ";">>}

KeyFiles == <<"p", "a", "s", "s", "e", "d", "_", "f", "i", "l", "e", "s">>

KeyX == <<"X">>

\* the keyword arguments **params
RenderParams ==
  {<<>>,
   << <<KeyFiles, <<>>>> >>,
   << <<KeyFiles, <<"a", ".", "b">>>> >>,
   << <<KeyX, <<"1">>>> >>,
   << <<KeyFiles, <<"a", ".", "b">>>>, <<KeyX, <<"1">>>> >>}

\* a call of render_constants: its arguments, and the lines it wrote
PasIdle ==
  [call_procedure |-> <<"f">>, terminate |-> FALSE, params |-> <<>>,
   done |-> FALSE, lines |-> <<>>]

PasInit ==
  \E c \in CallProcedures, t \in BOOLEAN, ps \in RenderParams :
    pas = [PasIdle EXCEPT !.call_procedure = c, !.terminate = t, !.params = ps]

\* render_constants is called: the status artifact is deleted and the
\* payload written
Render ==
  /\ ~pas.done
  /\ artifact' = NoFile
  /\ pas' = [pas EXCEPT !.done = TRUE,
                        !.lines = render_constants(pas.call_procedure,
                                                   pas.terminate, pas.params)]
  /\ UNCHANGED <<now, payload, eng, app, runs, loc, pat, prj, cli>>

----------------------------------------------------------------------------
(* Specifications.                                                         *)

Init == EngineInit /\ loc = LocIdle /\ pat = PatIdle /\ prj = PrjIdle /\ cli = CliIdle /\ pas = PasIdle

Next == EngineNext

\* run invocations, one at a time, against the target application
Spec == Init /\ [][Next]_vars

LocatorInit ==
  /\ LocInit
  /\ now = 0 /\ artifact = NoFile /\ payload = None /\ eng = EngIdle
  /\ app = [running |-> FALSE, queue |-> <<>>, ex |-> ExecIdle] /\ runs = 0
  /\ pat = PatIdle /\ prj = PrjIdle /\ cli = CliIdle /\ pas = PasIdle

LocatorNext == Resolve \/ Again

\* calls of get_altium_path
SpecLocator == LocatorInit /\ [][LocatorNext]_vars

PatcherInit ==
  /\ PatInit
  /\ now = 0 /\ artifact = NoFile /\ payload = None /\ eng = EngIdle
  /\ app = [running |-> FALSE, queue |-> <<>>, ex |-> ExecIdle] /\ runs = 0
  /\ loc = LocIdle /\ prj = PrjIdle /\ cli = CliIdle /\ pas = PasIdle

PatcherNext == Patch

\* calls of update_readme
SpecPatcher == PatcherInit /\ [][PatcherNext]_vars

ScannerInit ==
  /\ PrjInit
  /\ now = 0 /\ artifact = NoFile /\ payload = None /\ eng = EngIdle
  /\ app = [running |-> FALSE, queue |-> <<>>, ex |-> ExecIdle] /\ runs = 0
  /\ loc = LocIdle /\ pat = PatIdle /\ cli = CliIdle /\ pas = PasIdle

ScannerNext == Scan

\* calls of parse_prjpcb_params
SpecScanner == ScannerInit /\ [][ScannerNext]_vars

CliSpecInit ==
  /\ CliInit
  /\ now = 0 /\ artifact = NoFile /\ payload = None /\ eng = EngIdle
  /\ app = [running |-> FALSE, queue |-> <<>>, ex |-> ExecIdle] /\ runs = 0
  /\ loc = LocIdle /\ pat = PatIdle /\ prj = PrjIdle /\ pas = PasIdle

CliNext == Main

\* executions of the command line
SpecCli == CliSpecInit /\ [][CliNext]_vars

RenderInit ==
  /\ PasInit
  /\ artifact \in {NoFile, StaleFile}
  /\ now = 0 /\ payload = None /\ eng = EngIdle
  /\ app = [running |-> FALSE, queue |-> <<>>, ex |-> ExecIdle] /\ runs = 0
  /\ loc = LocIdle /\ pat = PatIdle /\ prj = PrjIdle /\ cli = CliIdle

RenderNext == Render

\* calls of render_constants
SpecRender == RenderInit /\ [][RenderNext]_vars

----------------------------------------------------------------------------
(* Properties of the wait loop and of the wrapper procedure.               *)

\* the invocation went through the wait loop and read the status artifact
HasRead == eng.pc = "done" /\ eng.read # None

\* C1: the invocation leaves the wait loop to read the status artifact only
\* at a check where the artifact exists and was last modified more than the
\* debounce age before: an invocation that launched and ends with a result
\* (an integer, or an invalid return code) has read a file, and the file
\* was older than DEBOUNCE_AGE when it was read.
C1_NoEarlyRead ==
  (eng.pc = "done" /\ eng.launched /\ eng.outcome \in {"returned", "InvalidResult"})
    => /\ eng.read # None
       /\ eng.ended - Val(eng.read).mtime > DEBOUNCE_AGE

\* an artifact holding "0" was found too young at one check (it was written
\* DEBOUNCE_AGE or less before, and not touched since) and accepted at a
\* later one
C1_Witness ==
  /\ HasRead /\ eng.young /\ eng.code = Some(0)
  /\ Val(eng.read).content = WriteLnText(0)
  /\ eng.ended - Val(eng.read).mtime > POLL_INTERVAL

WrittenOnce ==
  /\ eng.launched
  /\ IsSome(artifact.file)
  /\ artifact.by = eng.id
  /\ artifact.opens = 1
  /\ artifact.first = Val(artifact.file).mtime
  /\ Val(artifact.file).content # <<>>

\* the time of that write, counted from the launch
WrittenAt == Val(artifact.file).mtime - eng.proc_start

\* C3 as the specification states it: written once at T < timeout, the
\* integer is returned, no later than POLL_INTERVAL after T.
C3_Original ==
  (eng.pc = "done" /\ WrittenOnce /\ WrittenAt < eng.max_run_time)
    => /\ eng.outcome = "returned"
       /\ WriteLnText(Val(eng.code)) = Val(artifact.file).content
       /\ (eng.ended - eng.proc_start) - WrittenAt <= POLL_INTERVAL

\* C3, amended: written once at T with T + DEBOUNCE_AGE <= timeout, the
\* integer is returned, no later than POLL_INTERVAL + DEBOUNCE_AGE after T.
C3_Amended ==
  (eng.pc = "done" /\ WrittenOnce /\ WrittenAt + DEBOUNCE_AGE <= eng.max_run_time)
    => /\ eng.outcome = "returned"
       /\ WriteLnText(Val(eng.code)) = Val(artifact.file).content
       /\ (eng.ended - eng.proc_start) - WrittenAt <= POLL_INTERVAL + DEBOUNCE_AGE

\* an integer written once is returned POLL_INTERVAL + DEBOUNCE_AGE later
C3_Witness ==
  /\ eng.pc = "done" /\ WrittenOnce /\ eng.outcome = "returned"
  /\ WrittenAt + DEBOUNCE_AGE <= eng.max_run_time
  /\ (eng.ended - eng.proc_start) - WrittenAt = POLL_INTERVAL + DEBOUNCE_AGE

\* the invocation went through the wait loop and no check found the artifact
NeverAppeared == eng.pc = "done" /\ eng.launched /\ ~eng.seen

C5_WrittenOnce ==
  /\ app.ex.pc \in {"body", "rewritten"} => app.ex.wrote = <<>>
  /\ app.ex.pc = "after"
       => /\ app.ex.wrote = <<app.ex.return_code>>
          /\ ~app.ex.assigned => app.ex.wrote = <<FAILURE_SENTINEL>>

\* the body raised before it assigned return_code, with terminate set
C5_Witness ==
  /\ app.ex.pc = "after" /\ app.ex.raised /\ ~app.ex.assigned /\ app.ex.terminate
  /\ app.ex.wrote = <<FAILURE_SENTINEL>>

\* args.timeout is given and float() raises on it
Unparsable(arg) == arg # None /\ ParseFloat(Val(arg)) = None

\* args.timeout is a number outside ]3 s, 3600 s[
OutOfRange(arg) ==
  /\ arg # None /\ ParseFloat(Val(arg)) # None
  /\ ~(Val(ParseFloat(Val(arg))) > MIN_RUN_TIME
       /\ Val(ParseFloat(Val(arg))) < MAX_RUN_TIME)

\* the invocation got as far as reading args.timeout
ReadTimeout == eng.pc # "idle" /\ eng.rendered

\* C6 as the specification states it: an unparsable or out-of-range
\* timeout falls back to the default, with a message, and the invocation
\* launches and waits.
C6_Original ==
  (ReadTimeout /\ (Unparsable(eng.arg) \/ OutOfRange(eng.arg)))
    => /\ eng.launched
       /\ eng.max_run_time = DEFAULT_RUN_TIMEOUT
       /\ eng.fallback

\* C6, amended: an unparsable timeout falls back to the default, with a
\* message, and the invocation launches and waits; an out-of-range timeout
\* ends the invocation with an assertion error before the launch.
C6_Amended ==
  /\ (ReadTimeout /\ Unparsable(eng.arg))
       => /\ eng.launched
          /\ eng.max_run_time = DEFAULT_RUN_TIMEOUT
          /\ eng.fallback
  /\ (ReadTimeout /\ OutOfRange(eng.arg))
       => /\ ~eng.launched
          /\ eng.pc = "done" /\ eng.outcome = "AssertionError"

\* an invocation with an unparsable timeout waits with the default
C6_Witness ==
  /\ eng.pc = "wait" /\ Unparsable(eng.arg)
  /\ eng.max_run_time = DEFAULT_RUN_TIMEOUT /\ now > 0

\* the first line of the file read is no integer
BadLine == HasRead /\ ParseInt(ReadLine(Val(eng.read).content)) = None

\* C7 as the specification states it: a first line that is no integer ends
\* the invocation with InvalidResult and no integer is returned.
C7_Original ==
  BadLine => eng.outcome = "InvalidResult" /\ eng.code = None

\* C7, amended: a first line that is no integer ends the invocation with
\* InvalidResult logged and the integer INVALID_RETURN returned; a first
\* line that is an integer is never reported as invalid.
C7_Amended ==
  /\ BadLine => eng.outcome = "InvalidResult" /\ eng.code = Some(INVALID_RETURN)
  /\ (HasRead /\ ~BadLine) => eng.outcome = "returned"

\* an empty artifact was read
C7_Witness == BadLine /\ Val(eng.read).content = <<>> /\ eng.outcome = "InvalidResult"

----------------------------------------------------------------------------
(* Properties of the executable locator.                                   *)

\* a call of get_altium_path has ended
Resolved == IsSome(loc.result)

\* the subkeys of the registry key
Installed == loc.registry.builds

\* the installed builds have pairwise distinct version strings
DistinctVersions ==
  \A i, j \in 1..Len(Installed) : i # j => Installed[i].Version # Installed[j].Version

\* the hint is a version: not absent, not empty, not "any"
ConcreteHint == IsSome(loc.version) /\ Val(loc.version) \notin {<<>>, AnyHint}

\* the builds whose version starts with the hint, and the build it names
Matching == {i \in 1..Len(Installed) : StartsWith(Installed[i].Version, Val(loc.version))}

Exact == {i \in 1..Len(Installed) : Installed[i].Version = Val(loc.version)}

\* C8: with installed builds of pairwise distinct versions, a hint equal to
\* the version of a build returns the executable of that build, a hint no
\* version starts with fails with NotFound, and a hint that names no build
\* and that two or more versions start with fails with Ambiguous.
C8_ExactHint ==
  (Resolved /\ loc.registry.state = "ok" /\ DistinctVersions /\ ConcreteHint)
    => /\ \A i \in Exact :
            /\ Val(loc.result).kind = "path"
            /\ Val(loc.result).path = Some(<<Installed[i].ProgramsInstallPath, "X2.exe">>)
       /\ Matching = {} => Val(loc.result).kind = "NotFound"
       /\ (Cardinality(Matching) >= 2 /\ Exact = {})
            => Val(loc.result).kind = "Ambiguous"

\* the executable of the first running process named x2.exe, in any case
RunningExe ==
  LET x2 == {i \in 1..Len(loc.procs) : Lower(loc.procs[i].name) = X2Name}
  IN IF x2 = {} THEN None ELSE Some(loc.procs[Min(x2)].exe)

\* C9: with a running instance, a call with no hint or with "any" returns
\* the executable of the running instance and does not read the registry,
\* whatever the registry holds; a call with a concrete hint reads the
\* registry and does not return the running instance.
C9_RunningFirst ==
  (Resolved /\ RunningExe # None)
    => /\ loc.version \in {None, Some(AnyHint)}
            => Val(loc.result) = [kind |-> "path", path |-> RunningExe, regRead |-> FALSE]
       /\ ConcreteHint
            => /\ Val(loc.result).regRead
               /\ Val(loc.result).path # RunningExe

\* "any" with a running instance and a populated registry
C9_Witness ==
  /\ Resolved /\ loc.version = Some(AnyHint)
  /\ loc.procs = <<ProcOther, ProcX2>>
  /\ loc.registry.state = "ok" /\ Len(Installed) = MaxBuilds
  /\ Val(loc.result).path = Some(ProcX2.exe)

----------------------------------------------------------------------------
(* Properties of the documentation patcher.                                *)

\* the keys of the marked spans of s from position pos on, in order
RECURSIVE SlotKeys(_, _)
SlotKeys(s, pos) ==
  LET i == Search(s, pos)
      j == KeyEnd(s, i + Len(OpenMark))
  IN IF i = 0 THEN <<>>
     ELSE <<SubSeq(s, i + Len(OpenMark), j - 1)>>
            \o SlotKeys(s, BodyEnd(s, j + 1) + Len(CloseMark))

\* the number of marked spans of doc whose key is in params
PresentCount(doc, params) ==
  Cardinality({n \in 1..Len(SlotKeys(doc, 1)) : DictHas(params, SlotKeys(doc, 1)[n])})

\* a call of update_readme has returned
Patched == pat.calls > 0 /\ pat.outcome = "returned"

\* "[](Rev)old[](/)" with {Rev: "3"} in strict mode
RevExample ==
  /\ pat.calls = 1 /\ pat.fail_on_missing
  /\ pat.before = Slot(KeyRev, <<"o", "l", "d">>)
  /\ pat.given = << <<KeyRev, <<"3">>>> >>

\* C10 as the specification states it: the value returned is the number of
\* marked spans whose key is in the parameters.
C10_Original ==
  Patched => pat.ret = Some(PresentCount(pat.before, pat.given))

\* C10, amended: the value returned is 0; the number of marked spans whose
\* key is in the parameters is the count logged, in strict mode; the example
\* becomes "[](Rev)3[](/)" with 1 logged and 0 returned.
C10_Amended ==
  /\ Patched => pat.ret = Some(0)
  /\ (Patched /\ pat.fail_on_missing)
       => pat.inserted = PresentCount(pat.before, pat.given)
  /\ RevExample
       => /\ pat.outcome = "returned"
          /\ pat.readme = Slot(KeyRev, <<"3">>)
          /\ pat.inserted = 1

\* the example, patched
C10_Witness ==
  /\ RevExample /\ Patched
  /\ pat.readme = <<"[", "]", "(", "R", "e", "v", ")", "3", "[", "]", "(", "/", ")">>
  /\ pat.inserted = 1 /\ pat.ret = Some(0)

\* a marked span of doc has a key that is not in params
SomeKeyAbsent(doc, params) ==
  \E n \in 1..Len(SlotKeys(doc, 1)) : ~DictHas(params, SlotKeys(doc, 1)[n])

\* C11: in strict mode a call on a document with a marked span whose key is
\* not in the parameters fails with KeyError (MissingParameter) and leaves
\* the file as it was before the call, whatever spans come before that one.
C11_NoPartialWrite ==
  (pat.calls > 0 /\ pat.fail_on_missing /\ SomeKeyAbsent(pat.before, pat.given))
    => /\ pat.outcome = "KeyError"
       /\ pat.ret = None
       /\ pat.readme = pat.before

\* the call failed on a later span after a span whose key is present, on a
\* document the substitution of that span would have changed
C11_Witness ==
  /\ pat.calls = 1 /\ pat.fail_on_missing /\ pat.outcome = "KeyError"
  /\ pat.inserted > 0
  /\ pat.before = Slot(KeyRev, <<"o", "l", "d">>) \o Slot(KeyK, <<>>)
  /\ pat.given = << <<KeyRev, <<"3">>>> >>
  /\ pat.readme = pat.before

\* the second of two calls with the parameters the caller supplied returned
PatchedTwice ==
  pat.calls = 2 /\ pat.outcome = "returned" /\ pat.given = pat.supplied

\* C12: a second call of update_readme with the same parameters leaves the
\* document as the first call made it, whatever the values of the
\* parameters, values that hold marks included.
C12_Idempotent == PatchedTwice => pat.readme = pat.before

----------------------------------------------------------------------------
(* Properties of the project parameter scanner.                            *)

\* the parameter blocks of the file, in file order
PrjBlocks ==
  LET IsBlock(item) == item.kind = "block" IN SelectSeq(prj.items, IsBlock)

\* the file is made of parameter blocks and of lines of other kinds
WellFormed == \A n \in 1..Len(prj.items) : prj.items[n].kind \in {"block", "other"}

\* the first and the last block with a name
FirstBlock(name) == Min({n \in 1..Len(PrjBlocks) : PrjBlocks[n].name = name})

LastBlock(name) ==
  CHOOSE n \in 1..Len(PrjBlocks) :
    /\ PrjBlocks[n].name = name
    /\ \A m \in 1..Len(PrjBlocks) : PrjBlocks[m].name = name => m <= n

\* C13: on a file made of parameter blocks and other lines the scanner
\* returns a mapping with one entry for each distinct name, in the order
\* the names first occur in the file, each with the value of the last block
\* of its name; two blocks with distinct names give two entries in file
\* order.
C13_ScanBlocks ==
  (prj.outcome # "" /\ WellFormed)
    => /\ prj.outcome = "returned"
       /\ LET out == Val(prj.out)
          IN /\ {out[k][1] : k \in 1..Len(out)} = {PrjBlocks[n].name : n \in 1..Len(PrjBlocks)}
             /\ \A k, l \in 1..Len(out) :
                  k < l => FirstBlock(out[k][1]) < FirstBlock(out[l][1])
             /\ \A k \in 1..Len(out) :
                  out[k][2] = PrjBlocks[LastBlock(out[k][1])].value
             /\ (Len(PrjBlocks) = 2 /\ PrjBlocks[1].name # PrjBlocks[2].name)
                  => out = << <<PrjBlocks[1].name, PrjBlocks[1].value>>,
                              <<PrjBlocks[2].name, PrjBlocks[2].value>> >>

\* three blocks, with a line of another kind after the first: the name of
\* the first block comes again in the third, with another value
C13_Witness ==
  /\ prj.outcome = "returned" /\ WellFormed
  /\ Len(PrjBlocks) = 3 /\ prj.items[2].kind = "other"
  /\ PrjBlocks[1].name = PrjBlocks[3].name
  /\ PrjBlocks[1].name # PrjBlocks[2].name
  /\ PrjBlocks[1].value # PrjBlocks[3].value
  /\ Val(prj.out) = << <<PrjBlocks[1].name, PrjBlocks[3].value>>,
                       <<PrjBlocks[2].name, PrjBlocks[2].value>> >>

----------------------------------------------------------------------------
(* Properties of the run invocation as a command.                          *)

\* the invocation ended because an input is invalid or cannot be resolved:
\* the executable, the sub-command, the project file or the timeout
InputAbort ==
  /\ eng.pc = "done"
  /\ eng.outcome \in {"NotFound", "Ambiguous", "UsageError", "AssertionError"}

\* C14: an invocation that ends because an input is invalid or cannot be
\* resolved has not called render_constants (the payload is not rewritten,
\* the status artifact not deleted) and has not launched the application.
C14_NoSideEffects == InputAbort => ~eng.rendered /\ ~eng.launched

----------------------------------------------------------------------------
(* Properties of the command line.                                         *)

\* the failures a command reports
ReportedFailures ==
  {"NotFound", "Ambiguous", "Timeout", "InvalidResult", "KeyError",
   "StopIteration", "Interrupted", "NotADirectory", "ConfigExists"}

\* C15: the exit status is 1 when the command has reported a failure
\* (NotFound, Ambiguous, Timeout, InvalidResult, MissingParameter,
\* MalformedProjectFile, Interrupted, 'path is not a directory', 'config
\* file already exists'), and the integer the operation returned when the
\* operation completed.
C15_ExitStatus ==
  cli.done
    => /\ cli.reported \in ReportedFailures => cli.status = 1
       /\ (cli.reported = "" /\ cli.result.type = "int") => cli.status = cli.result.v

----------------------------------------------------------------------------
(* Properties of the script materializer.                                  *)

\* the places of the lines of the payload that have a given text
Places(text) == {n \in 1..Len(pas.lines) : pas.lines[n].text = text}

\* the place of the only line with a given text
Place(text) == CHOOSE n \in Places(text) : TRUE

Once(text) == Cardinality(Places(text)) = 1

\* C16: the payload holds, in this order: a constants block (the Const line
\* and one constant for each parameter) if and only if there are parameters;
\* one declaration of the status variable; one procedure RunFromAltiumate
\* that sets the status to the failure sentinel and then runs the procedure
\* body, which ends with ";" (added if call_procedure does not end with
\* it); TerminateWithExitCode(return_code) if and only if terminate is set.
C16_Layout ==
  pas.done =>
    /\ Cardinality(Places("Const")) = (IF pas.params # <<>> THEN 1 ELSE 0)
    /\ Cardinality(Places("  {k} = '{v}';")) = Len(pas.params)
    /\ pas.params # <<>> =>
         /\ Place("Const") = 1
         /\ \A n \in 1..Len(pas.params) :
              /\ pas.lines[1 + n].text = "  {k} = '{v}';"
              /\ StartsWith(pas.lines[1 + n].arg, pas.params[n][1])
    /\ Once("  return_code: integer;")
    /\ Once("Procedure RunFromAltiumate;")
    /\ Once("  return_code := 1;")
    /\ Once("    {call_procedure}")
    /\ Once("End;")
    /\ Len(pas.params) < Place("  return_code: integer;")
    /\ Place("  return_code: integer;") < Place("Procedure RunFromAltiumate;")
    /\ Place("Procedure RunFromAltiumate;") < Place("  return_code := 1;")
    /\ Place("  return_code := 1;") < Place("    {call_procedure}")
    /\ Place("    {call_procedure}") < Place("End;")
    /\ LET body == pas.lines[Place("    {call_procedure}")].arg
           given == pas.call_procedure
       IN /\ body[Len(body)] = ";"
          /\ IF given[Len(given)] = ";" THEN body = given ELSE body = given \o <<";">>
    /\ Cardinality(Places("  TerminateWithExitCode(return_code);"))
         = (IF pas.terminate THEN 1 ELSE 0)
    /\ pas.terminate =>
         /\ Place("    {call_procedure}") < Place("  TerminateWithExitCode(return_code);")
         /\ Place("  TerminateWithExitCode(return_code);") < Place("End;")

\* a payload with two constants, a body that got its ";" and
\* TerminateWithExitCode
C16_Witness ==
  /\ pas.done /\ pas.terminate /\ Len(pas.params) = 2
  /\ pas.call_procedure = <<"a", ";", "b">>
  /\ pas.lines[Place("    {call_procedure}")].arg = <<"a", ";", "b", ";">>
  /\ Place("  TerminateWithExitCode(return_code);") = Len(pas.lines) - 1

----------------------------------------------------------------------------
(* Properties of the wait loop: what ends it.                              *)

\* the invocation left the wait loop at a check where the status artifact
\* existed and was older than DEBOUNCE_AGE
EndedSettled ==
  eng.pc = "done" /\ eng.launched /\ Settled(artifact.file, eng.ended)

\* C17: an invocation that leaves the wait loop at a check where the status
\* artifact is settled returns the integer of the artifact, whatever the
\* time elapsed; it ends with Timeout only at a check where the artifact is
\* not settled and the time elapsed is more than the timeout.
C17_SettledFirst ==
  /\ EndedSettled => eng.outcome # "Timeout"
  /\ (eng.pc = "done" /\ eng.outcome = "Timeout")
       => /\ ~Settled(artifact.file, eng.ended)
          /\ eng.ended - eng.proc_start > eng.max_run_time

----------------------------------------------------------------------------
(* Further properties of the executable locator and of the patcher.        *)

\* C18: a call of get_altium_path ends with the path of a running instance
\* or of an installed build, or fails with NotFound or Ambiguous; it never
\* returns None, whatever the hint and the registry.
C18_UsablePath ==
  Resolved
    => /\ Val(loc.result).kind \in {"path", "NotFound", "Ambiguous"}
       /\ Val(loc.result).kind = "path" => IsSome(Val(loc.result).path)

\* C19: a call of update_readme leaves the parameters of the caller as they
\* were, and counts as rewritten only the marked spans whose key was in the
\* parameters before the call.
C19_ParametersKept ==
  Patched
    => /\ pat.parameters = pat.given
       /\ pat.inserted = PresentCount(pat.before, pat.given)

====
